---- MODULE Spec2Model ----
(***************************************************************************)
(* Model of the update-issue-status action: src/src/update-issue-status.ts *)
(* (updateIssueStatus, urlParse, mustGetOwnerTypeQuery) and src/src/main.ts*)
(* (the promise chain that turns the outcome into a process exit code).    *)
(*                                                                         *)
(* One behaviour is one invocation of the action.  The async function runs *)
(* synchronously up to each await, so there is one action per segment of   *)
(* code between two awaits, and one action per handler of main's chain.    *)
(* The octokit client is the environment: every awaited call either        *)
(* resolves with a response or rejects with an error.                      *)
(***************************************************************************)
EXTENDS Integers, Sequences, FiniteSets, TLC

(***************************************************************************)
(* Bounds of the model.                                                    *)
(***************************************************************************)
\* longest assignee list of the triggering item
MaxAssignees == 2
\* number of distinct opaque identifiers the remote API can hand out
MaxIds == 2

(***************************************************************************)
(* Values.                                                                 *)
(***************************************************************************)
\* JavaScript's undefined, and a local that has not been assigned yet
Undefined == [undefined |-> TRUE]
Unset == [unset |-> TRUE]
UnsetStr == "<unset>"
Some(v) == [some |-> v]

Accounts == {"octocat"}
Ids == {[id |-> i] : i \in 1..MaxIds}
Statuses == {"Todo", "todo", "In Progress", "Done"}

RECURSIVE SeqsUpTo(_, _)
SeqsUpTo(S, n) ==
  IF n = 0 THEN {<<>>}
  ELSE LET shorter == SeqsUpTo(S, n - 1)
       IN  shorter \cup {Append(s, x) : s \in {t \in shorter : Len(t) = n - 1}, x \in S}

(***************************************************************************)
(* Strings the code inspects character by character are sequences of       *)
(* one-character strings.                                                  *)
(***************************************************************************)
HttpsScheme == <<"h", "t", "t", "p", "s", ":", "/", "/">>
HttpScheme == <<"h", "t", "t", "p", ":", "/", "/">>
GithubHost == <<"g", "i", "t", "h", "u", "b", ".", "c", "o", "m", "/">>
GitlabHost == <<"g", "i", "t", "l", "a", "b", ".", "c", "o", "m", "/">>
OrgsToken == <<"o", "r", "g", "s">>
UsersToken == <<"u", "s", "e", "r", "s">>
TeamsToken == <<"t", "e", "a", "m", "s">>
ProjectsSegment == <<"/", "p", "r", "o", "j", "e", "c", "t", "s", "/">>
ViewsSuffix == <<"/", "v", "i", "e", "w", "s", "/", "1">>
Acme == <<"a", "c", "m", "e">>
Jdoe == <<"j", "d", "o", "e">>
Slash == <<"/">>

\* the project-url inputs of the model: the spec's three scenarios, and
\* near misses of each part of the pattern
ProjectUrls ==
  { HttpsScheme \o GithubHost \o OrgsToken \o Slash \o Acme \o ProjectsSegment \o <<"7">>,
    GithubHost \o UsersToken \o Slash \o Jdoe \o ProjectsSegment \o <<"3">>,
    HttpsScheme \o GithubHost \o OrgsToken \o Slash \o Acme \o ProjectsSegment \o <<"1", "2">> \o ViewsSuffix,
    HttpsScheme \o GitlabHost \o OrgsToken \o Slash \o Acme \o ProjectsSegment \o <<"7">>,
    HttpsScheme \o GithubHost \o TeamsToken \o Slash \o Acme \o ProjectsSegment \o <<"7">>,
    HttpScheme \o GithubHost \o OrgsToken \o Slash \o Acme \o ProjectsSegment \o <<"7">>,
    HttpsScheme \o GithubHost \o OrgsToken \o Slash \o ProjectsSegment \o <<"7">>,
    GithubHost \o UsersToken \o Slash \o Jdoe \o ProjectsSegment }

(***************************************************************************)
(* urlParse and the helpers of the regular expression.                     *)
(***************************************************************************)
StartsWith(s, p) == Len(s) >= Len(p) /\ SubSeq(s, 1, Len(p)) = p
Drop(s, n) == SubSeq(s, n + 1, Len(s))

Digits == {"0", "1", "2", "3", "4", "5", "6", "7", "8", "9"}
DigitValue(c) ==
  CASE c = "0" -> 0 [] c = "1" -> 1 [] c = "2" -> 2 [] c = "3" -> 3 [] c = "4" -> 4
    [] c = "5" -> 5 [] c = "6" -> 6 [] c = "7" -> 7 [] c = "8" -> 8 [] c = "9" -> 9

\* length of the longest prefix of s whose characters are all in / all not in C
RECURSIVE SpanIn(_, _)
SpanIn(s, C) == IF s # <<>> /\ Head(s) \in C THEN 1 + SpanIn(Tail(s), C) ELSE 0
RECURSIVE SpanNotIn(_, _)
SpanNotIn(s, C) == IF s # <<>> /\ Head(s) \notin C THEN 1 + SpanNotIn(Tail(s), C) ELSE 0

NoMatch == [matched |-> FALSE]

\* /^(?:https:\/\/)?github\.com\/(?<ownerType>orgs|users)\/(?<ownerName>[^/]+)
\*   \/projects\/(?<projectNumber>\d+)/  applied by String.prototype.match
urlParse(url) ==
  LET afterScheme == IF StartsWith(url, HttpsScheme) THEN Drop(url, Len(HttpsScheme)) ELSE url
  IN
  IF ~StartsWith(afterScheme, GithubHost) THEN NoMatch
  ELSE
    LET afterHost == Drop(afterScheme, Len(GithubHost))
        ownerType == IF StartsWith(afterHost, OrgsToken) THEN OrgsToken
                     ELSE IF StartsWith(afterHost, UsersToken) THEN UsersToken
                     ELSE <<>>
    IN
    IF ownerType = <<>> \/ ~StartsWith(Drop(afterHost, Len(ownerType)), Slash) THEN NoMatch
    ELSE
      LET afterType == Drop(afterHost, Len(ownerType) + 1)
          nameLen == SpanNotIn(afterType, {"/"})
          afterName == Drop(afterType, nameLen)
      IN
      IF nameLen = 0 \/ ~StartsWith(afterName, ProjectsSegment) THEN NoMatch
      ELSE
        LET afterProjects == Drop(afterName, Len(ProjectsSegment))
            numLen == SpanIn(afterProjects, Digits)
        IN
        IF numLen = 0 THEN NoMatch
        ELSE [matched |-> TRUE,
              groups |-> [ownerType |-> ownerType,
                          ownerName |-> SubSeq(afterType, 1, nameLen),
                          projectNumber |-> SubSeq(afterProjects, 1, numLen)]]

\* parseInt(digits, 10) on a non-empty string of decimal digits
RECURSIVE parseInt(_)
parseInt(s) == IF s = <<>> THEN 0 ELSE 10 * parseInt(SubSeq(s, 1, Len(s) - 1)) + DigitValue(s[Len(s)])

\* mustGetOwnerTypeQuery: the GraphQL root field, or null when it throws
mustGetOwnerTypeQuery(ownerType) ==
  IF ownerType = OrgsToken THEN "organization"
  ELSE IF ownerType = UsersToken THEN "user"
  ELSE "null"


(***************************************************************************)
(* Errors, responses and the trigger payload.                              *)
(***************************************************************************)
NoError == [none |-> TRUE]
Null == [null |-> TRUE]

\* Object.keys(undefined), line 65
KeysTypeError == [name |-> "TypeError", message |-> "Cannot convert undefined or null to object"]
\* nodes[0].fieldValueByName on an empty nodes list, lines 127-128
NodeTypeError == [name |-> "TypeError", message |-> "Cannot read properties of undefined (reading 'fieldValueByName')"]
\* fieldValueByName.name on a null field value, line 127
FieldValueTypeError == [name |-> "TypeError", message |-> "Cannot read properties of null (reading 'name')"]
\* lines 76-80
InvalidProjectUrlError(url) == [name |-> "Error", message |-> "Invalid project URL", input |-> url]
\* lines 184-186
UnsupportedOwnerTypeError(ownerType) == [name |-> "Error", message |-> "Unsupported ownerType", input |-> ownerType]
\* what a rejected octokit.graphql call throws
RemoteErrors == {[name |-> "HttpError", message |-> "Bad credentials"],
                 [name |-> "GraphqlResponseError", message |-> "Request failed due to following response errors"]}

IssueNumbers == {42}
Items == [number : IssueNumbers, node_id : Ids, assignees : SeqsUpTo(Accounts, MaxAssignees)]
\* github.context.payload of an issues event and of a pull_request event
IssuePayloads == {[issue |-> i, pull_request |-> Undefined] : i \in Items}
PullRequestPayloads == {[issue |-> Undefined, pull_request |-> i] : i \in Items}

\* ProjectNodeIDResponse for the root field that was queried
ProjectNodeIDResponses(rootField) ==
  {[organization |-> IF rootField = "organization" THEN [projectV2 |-> [id |-> i]] ELSE Undefined,
    user |-> IF rootField = "user" THEN [projectV2 |-> [id |-> i]] ELSE Undefined] : i \in Ids}

\* IssueStatusResponse: no linked item, a linked item without a Status value,
\* or a linked item with a Status value
FieldValues == {Null} \cup [field : [databaseId : Ids], name : Statuses]
IssueStatusResponses ==
  {[projectItems |-> [nodes |-> <<>>]]}
    \cup {[projectItems |-> [nodes |-> <<[fieldValueByName |-> fv]>>]] : fv \in FieldValues}

\* UpdateIssueStatusResponse
UpdateIssueStatusResponses ==
  {[updateProjectV2ItemFieldValue |->
      [projectV2Item |-> [fieldValueByName |-> [name |-> n]]]] : n \in Statuses}

(***************************************************************************)
(* State.                                                                  *)
(***************************************************************************)
VARIABLES
  projectUrl,      \* core.getInput('project-url')
  newStatus,       \* core.getInput('new-status')
  openStatus,      \* core.getInput('open-status')
  payload,         \* github.context.payload
  pc,              \* where updateIssueStatus is suspended
  promise,         \* state of the promise updateIssueStatus returned
  err,             \* the error the promise was rejected with
  calls,           \* the octokit.graphql calls issued so far, in order
  settled,         \* how each issued call settled: "ok" or "error"
  issueAssignees,  \* line 62
  ownerTypeQuery,  \* line 85
  idResp,          \* line 92
  issueResp,       \* line 106
  projectId,       \* line 125
  contentId,       \* line 126
  issueStatus,     \* line 127
  fieldId,         \* line 128
  infoLog,         \* core.info messages
  outputs,         \* core.setOutput values
  failed,          \* core.setFailed message
  process          \* the node process: running, or exited with a code

inputs == <<projectUrl, newStatus, openStatus, payload>>
locals == <<issueAssignees, ownerTypeQuery, idResp, issueResp, projectId, contentId, issueStatus, fieldId>>
platform == <<infoLog, outputs, failed, process>>
vars == <<inputs, pc, promise, err, calls, settled, locals, platform>>

Init ==
  /\ \/ payload \in IssuePayloads
     \/ payload \in PullRequestPayloads
  /\ projectUrl \in ProjectUrls
  /\ newStatus \in Statuses
  /\ openStatus \in Statuses
  /\ pc = "start"
  /\ promise = "pending"
  /\ err = NoError
  /\ calls = <<>>
  /\ settled = <<>>
  /\ issueAssignees = Unset
  /\ ownerTypeQuery = UnsetStr
  /\ idResp = Unset
  /\ issueResp = Unset
  /\ projectId = Unset
  /\ contentId = Unset
  /\ issueStatus = UnsetStr
  /\ fieldId = Unset
  /\ infoLog = <<>>
  /\ outputs = [fieldName |-> UnsetStr]
  /\ failed = Unset
  /\ process = [state |-> "running"]

(***************************************************************************)
(* Expressions of updateIssueStatus.                                       *)
(***************************************************************************)
\* line 60: payload.issue ?? payload.pull_request
issue == IF payload.issue # Undefined THEN payload.issue ELSE payload.pull_request

\* line 62: payload.issue?.assignees
issueAssigneesOf(p) == IF p.issue = Undefined THEN Undefined ELSE Some(p.issue.assignees)

\* line 65: Object.keys(issueAssignees).length === 0, for an array
assigneeCheckReturns(assignees) == Len(assignees) = 0

\* line 125: idResp[ownerTypeQuery]?.projectV2.id
projectIdOf(resp, rootField) ==
  IF resp[rootField] = Undefined THEN Undefined ELSE resp[rootField].projectV2.id

\* the check done on lower-cased labels
toLowerCase(s) ==
  CASE s = "Todo" -> "todo" [] s = "In Progress" -> "in progress" [] s = "Done" -> "done"
    [] OTHER -> s
openStatusCheckIgnoringCase(status, open) == toLowerCase(status) # toLowerCase(open)

\* line 136: issueStatus !== openStatus
openStatusCheckReturns(status, open) == status # open

\* the field and project identifiers exchanged
mutationVariablesSwapped(fId, cId, pId, status) ==
  [input |-> [fieldId |-> pId, contentId |-> cId, projectId |-> fId, issueStatus |-> status]]

\* lines 166-173: the variables object passed with the mutation
mutationVariables(fId, cId, pId, status) ==
  [input |-> [fieldId |-> fId, contentId |-> cId, projectId |-> pId, issueStatus |-> status]]

\* lines 146-151: the input of updateProjectV2ItemFieldValue as the query
\* text binds it to the variables
mutationInput(variables) ==
  [fieldId |-> variables.input.fieldId,
   itemId |-> variables.input.contentId,
   projectId |-> variables.input.projectId,
   value |-> variables.input.issueStatus]

\* the promise of the async function settles
Return == /\ pc' = "returned"
          /\ promise' = "fulfilled"
          /\ err' = err
Throw(e) == /\ pc' = "threw"
            /\ promise' = "rejected"
            /\ err' = e


(***************************************************************************)
(* updateIssueStatus, one action per segment between two awaits.           *)
(***************************************************************************)
\* lines 53-104: inputs, assignee check, URL parsing, project-identity query
Start ==
  /\ pc = "start"
  /\ issueAssignees' = issueAssigneesOf(payload)
  /\ UNCHANGED <<inputs, settled, idResp, issueResp, projectId, contentId, issueStatus,
                 fieldId, outputs, failed, process>>
  /\ IF issueAssignees' = Undefined
     THEN /\ Throw(KeysTypeError)
          /\ UNCHANGED <<calls, ownerTypeQuery, infoLog>>
     ELSE IF assigneeCheckReturns(issueAssignees'.some)
     THEN /\ infoLog' = Append(infoLog, [text |-> "because it is already assigned an owner",
                                         number |-> issue.number])
          /\ Return
          /\ UNCHANGED <<calls, ownerTypeQuery>>
     ELSE LET urlMatch == urlParse(projectUrl) IN
       IF ~urlMatch.matched
       THEN /\ Throw(InvalidProjectUrlError(projectUrl))
            /\ UNCHANGED <<calls, ownerTypeQuery, infoLog>>
       ELSE LET rootField == mustGetOwnerTypeQuery(urlMatch.groups.ownerType) IN
         IF rootField = "null"
         THEN /\ Throw(UnsupportedOwnerTypeError(urlMatch.groups.ownerType))
              /\ UNCHANGED <<calls, ownerTypeQuery, infoLog>>
         ELSE /\ ownerTypeQuery' = rootField
              /\ calls' = Append(calls,
                   [query |-> "getProject",
                    rootField |-> rootField,
                    variables |-> [projectOwnerName |-> urlMatch.groups.ownerName,
                                   projectNumber |-> parseInt(urlMatch.groups.projectNumber)]])
              /\ pc' = "awaitIdResp"
              /\ UNCHANGED <<promise, err, infoLog>>

\* line 92 resolves; line 106 issues the status query
IdQueryResolves ==
  /\ pc = "awaitIdResp"
  /\ \E resp \in ProjectNodeIDResponses(ownerTypeQuery) : idResp' = resp
  /\ settled' = Append(settled, "ok")
  /\ calls' = Append(calls, [query |-> "issueStatus"])
  /\ pc' = "awaitIssueResp"
  /\ UNCHANGED <<inputs, promise, err, issueAssignees, ownerTypeQuery, issueResp, projectId,
                 contentId, issueStatus, fieldId, platform>>

\* the rejection swallowed and the workflow carried on
IdQueryRejectionSwallowed ==
  /\ pc = "awaitIdResp"
  /\ settled' = Append(settled, "error")
  /\ idResp' = [organization |-> Undefined, user |-> Undefined]
  /\ calls' = Append(calls, [query |-> "issueStatus"])
  /\ pc' = "awaitIssueResp"
  /\ UNCHANGED <<inputs, promise, err, issueAssignees, ownerTypeQuery, issueResp, projectId,
                 contentId, issueStatus, fieldId, platform>>

\* line 92 rejects: the await throws out of the function
IdQueryRejects ==
  /\ pc = "awaitIdResp"
  /\ settled' = Append(settled, "error")
  /\ \E e \in RemoteErrors : Throw(e)
  /\ UNCHANGED <<inputs, calls, locals, platform>>

\* line 106 resolves; lines 125-174 read the responses, apply the
\* open-status check and issue the mutation
IssueQueryResolves ==
  /\ pc = "awaitIssueResp"
  /\ \E resp \in IssueStatusResponses : issueResp' = resp
  /\ settled' = Append(settled, "ok")
  /\ projectId' = projectIdOf(idResp, ownerTypeQuery)
  /\ contentId' = issue.node_id
  /\ UNCHANGED <<inputs, issueAssignees, ownerTypeQuery, idResp, outputs, failed, process>>
  /\ LET nodes == issueResp'.projectItems.nodes IN
     IF nodes = <<>>
     THEN /\ Throw(NodeTypeError)
          /\ UNCHANGED <<calls, issueStatus, fieldId, infoLog>>
     ELSE IF nodes[1].fieldValueByName = Null
     THEN /\ Throw(FieldValueTypeError)
          /\ UNCHANGED <<calls, issueStatus, fieldId, infoLog>>
     ELSE /\ issueStatus' = nodes[1].fieldValueByName.name
          /\ fieldId' = nodes[1].fieldValueByName.field.databaseId
          /\ IF openStatusCheckReturns(issueStatus', openStatus)
             THEN /\ infoLog' = Append(infoLog, [text |-> "because it is not in an open status",
                                                 number |-> issue.number])
                  /\ Return
                  /\ UNCHANGED calls
             ELSE /\ calls' = Append(calls,
                       [query |-> "updateIssueStatus",
                        variables |-> mutationVariables(fieldId', contentId', projectId', issueStatus')])
                  /\ pc' = "awaitUpdResp"
                  /\ UNCHANGED <<promise, err, infoLog>>

\* line 106 rejects
IssueQueryRejects ==
  /\ pc = "awaitIssueResp"
  /\ settled' = Append(settled, "error")
  /\ \E e \in RemoteErrors : Throw(e)
  /\ UNCHANGED <<inputs, calls, locals, platform>>

\* line 144 resolves; line 177 publishes the output and the function ends
MutationResolves ==
  /\ pc = "awaitUpdResp"
  /\ settled' = Append(settled, "ok")
  /\ \E updResp \in UpdateIssueStatusResponses :
       outputs' = [outputs EXCEPT !.fieldName =
                     updResp.updateProjectV2ItemFieldValue.projectV2Item.fieldValueByName.name]
  /\ Return
  /\ UNCHANGED <<inputs, calls, locals, infoLog, failed, process>>

\* line 144 rejects
MutationRejects ==
  /\ pc = "awaitUpdResp"
  /\ settled' = Append(settled, "error")
  /\ \E e \in RemoteErrors : Throw(e)
  /\ UNCHANGED <<inputs, calls, locals, platform>>

(***************************************************************************)
(* main.ts: updateIssueStatus().catch(...).then(...)                       *)
(***************************************************************************)
\* the handler without process.exit(1): the chain goes on to .then
MainCatchFallsThrough ==
  /\ promise = "rejected"
  /\ process.state = "running"
  /\ failed' = Some(err.message)
  /\ process' = [state |-> "exited", code |-> 0]
  /\ UNCHANGED <<inputs, pc, promise, err, calls, settled, locals, infoLog, outputs>>

\* lines 5-8: the rejection handler; process.exit(1) ends the process, so
\* the .then handler never runs after it
MainCatch ==
  /\ promise = "rejected"
  /\ process.state = "running"
  /\ failed' = Some(err.message)
  /\ process' = [state |-> "exited", code |-> 1]
  /\ UNCHANGED <<inputs, pc, promise, err, calls, settled, locals, infoLog, outputs>>

\* lines 9-11: a fulfilled promise passes through .catch to .then
MainThen ==
  /\ promise = "fulfilled"
  /\ process.state = "running"
  /\ process' = [state |-> "exited", code |-> 0]
  /\ UNCHANGED <<inputs, pc, promise, err, calls, settled, locals, infoLog, outputs, failed>>

Next ==
  \/ Start
  \/ IdQueryResolves
  \/ IdQueryRejects
  \/ IssueQueryResolves
  \/ IssueQueryRejects
  \/ MutationResolves
  \/ MutationRejects
  \/ MainCatch
  \/ MainThen

Spec == Init /\ [][Next]_vars

TypeOK ==
  /\ pc \in {"start", "awaitIdResp", "awaitIssueResp", "awaitUpdResp", "returned", "threw"}
  /\ promise \in {"pending", "fulfilled", "rejected"}
  /\ Len(settled) <= Len(calls)


(***************************************************************************)
(* Vocabulary of the properties.                                           *)
(***************************************************************************)
\* the issue or pull request that fired the workflow
TriggerItem == IF payload.issue # Undefined THEN payload.issue ELSE payload.pull_request
IsPullRequestTrigger == payload.issue = Undefined /\ payload.pull_request # Undefined
Exited == process.state = "exited"
MutationCalls == {i \in DOMAIN calls : calls[i].query = "updateIssueStatus"}
CallOrder == <<"getProject", "issueStatus", "updateIssueStatus">>
\* the open-status check at line 136 has been evaluated
ReachedOpenStatusGate == issueStatus # UnsetStr

(***************************************************************************)
(* C1: whenever the triggering item has a non-empty assignee set, the      *)
(* invocation ends successfully (no error, exit code 0) and none of the    *)
(* three remote calls is issued.                                           *)
(***************************************************************************)
C1_AssignedItemSkipped ==
  Len(TriggerItem.assignees) > 0 =>
    /\ calls = <<>>
    /\ promise # "rejected"
    /\ Exited => process.code = 0

(***************************************************************************)
(* C2: every status mutation issued asks the remote API to set the Status  *)
(* field to the configured new-status input.                               *)
(***************************************************************************)
C2_MutationSetsNewStatus ==
  \A i \in MutationCalls : mutationInput(calls[i].variables).value = newStatus

(***************************************************************************)
(* C3: an invocation that reaches the open-status gate with a status name  *)
(* different from the open-status label issues no mutation, never sets     *)
(* the output fieldName, and ends successfully with exit code 0.           *)
(***************************************************************************)
C3_NotOpenSkipsMutation ==
  (ReachedOpenStatusGate /\ issueStatus # openStatus) =>
    /\ MutationCalls = {}
    /\ outputs.fieldName = UnsetStr
    /\ promise = "fulfilled"
    /\ failed = Unset
    /\ Exited => process.code = 0

C3_Witness ==
  /\ Exited
  /\ issueStatus = "Done"
  /\ openStatus = "Todo"
  /\ Len(calls) = 2
  /\ process.code = 0

(***************************************************************************)
(* C4: an invocation whose resolved status name equals the open-status     *)
(* label issues exactly one mutation, whose fieldId, projectId and item id *)
(* are the field identifier the status-field query returned, the project   *)
(* identifier the project-identity query returned and the triggering       *)
(* item's node id.                                                         *)
(***************************************************************************)
C4_OneMutationWithResolvedIds ==
  (ReachedOpenStatusGate /\ issueStatus = openStatus) =>
    /\ Cardinality(MutationCalls) = 1
    /\ \A i \in MutationCalls :
         LET input == mutationInput(calls[i].variables) IN
         /\ input.fieldId = issueResp.projectItems.nodes[1].fieldValueByName.field.databaseId
         /\ input.projectId = idResp[calls[1].rootField].projectV2.id
         /\ input.itemId = TriggerItem.node_id

C4_Witness ==
  /\ Exited
  /\ issueStatus = openStatus
  /\ Len(calls) = 3
  /\ settled = <<"ok", "ok", "ok">>
  /\ mutationInput(calls[3].variables).fieldId # mutationInput(calls[3].variables).projectId

(***************************************************************************)
(* C5: an invocation whose project-url does not match the pattern fails    *)
(* with the invalid-project-URL error and issues no remote call, whatever  *)
(* the trigger context; it never ends as a success.                        *)
(***************************************************************************)
C5_InvalidUrlAlwaysFails ==
  (~urlParse(projectUrl).matched /\ pc # "start") =>
    /\ calls = <<>>
    /\ promise = "rejected"
    /\ err = InvalidProjectUrlError(projectUrl)

(***************************************************************************)
(* C6: the exit code is 0 exactly when updateIssueStatus completed without *)
(* throwing, and non-zero, with the error's message set as the failure     *)
(* message, exactly when it threw.                                         *)
(***************************************************************************)
C6_ExitCodeReflectsOutcome ==
  Exited =>
    /\ process.code = 0 <=> promise = "fulfilled"
    /\ process.code # 0 <=> promise = "rejected"
    /\ promise = "rejected" => failed = Some(err.message)
    /\ promise = "fulfilled" => failed = Unset

C6_Witness ==
  /\ Exited
  /\ promise = "rejected"
  /\ process.code = 1
  /\ failed = Some(err.message)
  /\ err \in RemoteErrors

(***************************************************************************)
(* C7: whenever the triggering item has an empty assignee set, no remote   *)
(* call is issued and the invocation exits successfully.                   *)
(***************************************************************************)
C7_UnassignedItemSkipped ==
  Len(TriggerItem.assignees) = 0 =>
    /\ calls = <<>>
    /\ promise # "rejected"
    /\ Exited => process.code = 0

(***************************************************************************)
(* C8: when the status-field query returns no linked project item, the     *)
(* invocation fails with the missing-project-item error, never reaches the *)
(* open-status gate, issues no mutation and exits non-zero.                *)
(***************************************************************************)
C8_MissingItemFailsExplicitly ==
  (issueResp # Unset /\ issueResp.projectItems.nodes = <<>>) =>
    /\ promise = "rejected"
    /\ err.name = "MissingProjectItemError"
    /\ ~ReachedOpenStatusGate
    /\ MutationCalls = {}
    /\ Exited => process.code # 0

(***************************************************************************)
(* C9: the remote calls are issued only in the order project-identity      *)
(* query, status-field query, mutation, each at most once; once a remote   *)
(* call has failed no later call is issued, the output fieldName is not    *)
(* set, and the invocation ends in the error state.                        *)
(***************************************************************************)
C9_SequentialNoRetry ==
  /\ Len(calls) <= Len(CallOrder)
  /\ \A i \in DOMAIN calls : calls[i].query = CallOrder[i]
  /\ Len(settled) <= Len(calls)
  /\ \A i \in DOMAIN settled :
       settled[i] = "error" =>
         /\ Len(calls) = i
         /\ Len(settled) = i
         /\ outputs.fieldName = UnsetStr
         /\ promise = "rejected"
         /\ err \in RemoteErrors
         /\ Exited => process.code # 0

C9_Witness ==
  /\ Exited
  /\ settled = <<"ok", "error">>
  /\ Len(calls) = 2
  /\ promise = "rejected"

(***************************************************************************)
(* C10: on a pull-request trigger the assignee list is taken from the      *)
(* pull-request record and the eligibility check decides on it without     *)
(* raising an error.                                                       *)
(***************************************************************************)
C10_PullRequestHandledLikeIssue ==
  (IsPullRequestTrigger /\ pc # "start") =>
    /\ issueAssignees = Some(payload.pull_request.assignees)
    /\ err # KeysTypeError

====
